---------------------------- MODULE Spec2Model ----------------------------
(***************************************************************************)
(* Model of orange-proxy/index.js: the per-connection state machine of the *)
(* paid Nostr proxy (auth challenge, payment-gated admission, the queued   *)
(* drain loop and teardown).                                               *)
(*                                                                         *)
(* Every callback of the source is one action.  The two asynchronous       *)
(* callbacks (the AUTH branch of ws.on("message") and the payment timeout) *)
(* are split at their awaits: pc and payTimer hold the position at which   *)
(* each one is suspended.                                                  *)
(*                                                                         *)
(* An exception thrown inside the setInterval callback is not caught by    *)
(* anything in the source, so it ends the Node process: crashed.           *)
(***************************************************************************)
EXTENDS Naturals, Sequences, FiniteSets

(* ------------------------------ bounds --------------------------------- *)

\* connections that arrive in a run of SpecPair (req.id in 1..MaxConns);
\* Spec is the machine of one connection
MaxConns == 2
\* frames that arrive in a run, from the clients (AUTH frames on a connection
\* that is not authenticated apart) and from the relays together
MaxFrames == 2
\* a drain tick is taken only while the connection's log of frames sent to
\* the relay is shorter than this (the log grows on every tick that re-sends)
MaxSent == 2

(* ------------------------- program constants --------------------------- *)

\* config.collateralRequired
collateralRequired == 2

Conns == 1..MaxConns

\* bot.publicKey
BotKey == "bot"
\* the keys clients authenticate with: the operator's and a user's
AuthKeys == {BotKey, "P"}
\* the keys a payment webhook may name: Q is a user with no connection
Pubkeys == AuthKeys \cup {"Q"}

\* what getBalanceInSats resolves to: 0 stands for a failed lookup (a falsy
\* result), then a balance below and one at the required collateral
Balances == {0, collateralRequired - 1, collateralRequired}

\* the first element of a client frame; BAD is a frame that is not JSON.
\* (Frames are not empty: the loops of the drain stop at a falsy frame.  A
\* frame of any other type, COUNT for one, takes the branches that an EVENT
\* of a kind that is not filtered takes.)
FrameTypes == {"REQ", "CLOSE", "EVENT", "BAD"}

\* the second element of an EVENT frame: absent (["EVENT"]), or an event
\* whose kind is in config.filterNipKind or is not; nothing is read of the
\* second element of the other frames
EventKinds(t) ==
    IF t = "EVENT" THEN {"missing", "filtered", "other"} ELSE {"na"}

VARIABLES
    arrivals,         \* upgrade requests still to come
    id,               \* let id = 1: the next req.id
    clients,          \* the registry: ids with an entry in clients
    closed,           \* clientObj.closed
    drainTimer,       \* clientObj.timeout: TRUE while the interval is set
    authenticated,    \* ws.authenticated
    funded,           \* ws.funded
    wsState,          \* ws.readyState
    relayState,       \* relay.readyState
    queueUpstream,    \* clientObj.queueUpstream
    queueDownstream,  \* clientObj.queueDownstream
    authTimer,        \* the setTimeout of sendAuthChallenge
    pc,               \* where the AUTH branch of ws.on("message") is suspended
    pubkey,           \* event.pubkey of the accepted AUTH event
    payTimer,         \* the setTimeout of line 167 and its callback
    listeners,        \* process listeners of `${pubkey}.paid`, per pubkey
    crashed,          \* the process ended on an uncaught exception
    sentUp,           \* log: frames handed to relay.send, in order
    sentDown,         \* log: frames handed to ws.send by the drain, in order
    nFrames,          \* frames arrived so far: frame k is the k-th to arrive
    hist              \* log per connection: teardown and waiter counters

vars == <<arrivals, id, clients, closed, drainTimer, authenticated, funded,
          wsState, relayState, queueUpstream, queueDownstream, authTimer, pc,
          pubkey, payTimer, listeners, crashed, sentUp, sentDown, nFrames,
          hist>>

connVars == <<closed, clients, drainTimer, wsState, relayState, crashed,
              hist>>

(* ------------------------------ helpers -------------------------------- *)

RECURSIVE Reverse(_)
Reverse(s) == IF s = <<>> THEN <<>> ELSE Append(Reverse(Tail(s)), Head(s))

\* JSON.parse(data) throws
Unparseable(f) == f.type = "BAD"

\* line 267-268 on a funded connection: `e.kind` of an EVENT frame that has
\* no second element throws a TypeError
NoEventObject(f) == f.type = "EVENT" /\ f.kind = "missing"

\* the body of the loop of line 251 throws on frame f, before relay.send
Throws(f, isFunded) == Unparseable(f) \/ (isFunded /\ NoEventObject(f))

\* line 254-259 with funded false: the frame is pushed to reAddUpstream
Deferred(f) == f.type # "REQ" /\ f.type # "CLOSE"

\* the log of a connection: how often closed went from false to true, each
\* socket's close() was called and the entry was deleted from clients;
\* whether it was the auth timer that tore the connection down, and whether
\* the AUTH branch was suspended at an await when it was torn down; how often
\* the process.once listener ran, and whether it ran while the payment timer
\* was still pending; the calls of getBalanceInSats and bot.askForCollateral,
\* of setTimeout (line 167) and process.once (line 179); whether the balance
\* returned at authentication was at least the collateral and whether the
\* DM failed; the frames processSpam was called for; whether a drain tick
\* returned at line 246 when relay frames were queued and the client socket
\* was open
NoHist == [closedFlips |-> 0, wsCloses |-> 0, relayCloses |-> 0,
           removals |-> 0, byAuthTimer |-> FALSE, inAwait |-> FALSE,
           waiterFires |-> 0, paidInTime |-> FALSE, lookups |-> 0,
           dms |-> 0, timers |-> 0, waiters |-> 0, sufficient |-> FALSE,
           dmFailed |-> FALSE, spamCalls |-> <<>>, heldBack |-> FALSE]

\* the server has started; n connections will arrive
InitWith(n) ==
    /\ arrivals = n
    /\ id = 1
    /\ clients = {}
    /\ closed = [c \in Conns |-> FALSE]
    /\ drainTimer = [c \in Conns |-> FALSE]
    /\ authenticated = [c \in Conns |-> FALSE]
    /\ funded = [c \in Conns |-> FALSE]
    /\ wsState = [c \in Conns |-> "NONE"]
    /\ relayState = [c \in Conns |-> "NONE"]
    /\ queueUpstream = [c \in Conns |-> <<>>]
    /\ queueDownstream = [c \in Conns |-> <<>>]
    /\ authTimer = [c \in Conns |-> "none"]
    /\ pc = [c \in Conns |-> "idle"]
    /\ pubkey = [c \in Conns |-> "none"]
    /\ payTimer = [c \in Conns |-> "none"]
    /\ listeners = [p \in Pubkeys |-> {}]
    /\ crashed = FALSE
    /\ sentUp = [c \in Conns |-> <<>>]
    /\ sentDown = [c \in Conns |-> <<>>]
    /\ nFrames = 0
    /\ hist = [c \in Conns |-> NoHist]

Init == InitWith(1)
InitPair == InitWith(MaxConns)

(* ---------------------------- closeConnection -------------------------- *)

\* socket.close(): a socket that is connecting or open starts closing; a
\* close() that throws leaves the socket as it was
AfterClose(s, throws) ==
    IF ~throws /\ s \in {"CONNECTING", "OPEN"} THEN "CLOSING" ELSE s

\* closeConnection without line 219
closeConnection_NoClosedCheck(c, cause, ws0, relay0) ==
    /\ drainTimer' = [drainTimer EXCEPT ![c] = FALSE]
    /\ clients' = clients \ {c}
    /\ closed' = [closed EXCEPT ![c] = TRUE]
    /\ \E wsThrows, relayThrows \in BOOLEAN :
         /\ wsState' = [wsState EXCEPT ![c] = AfterClose(ws0, wsThrows)]
         /\ relayState' =
              [relayState EXCEPT ![c] = AfterClose(relay0, relayThrows)]
    /\ hist' = [hist EXCEPT
           ![c].closedFlips = @ + (IF closed[c] THEN 0 ELSE 1),
           ![c].wsCloses = @ + 1,
           ![c].relayCloses = @ + 1,
           ![c].removals = @ + (IF c \in clients THEN 1 ELSE 0),
           ![c].byAuthTimer = @ \/ (~closed[c] /\ cause = "authtimeout"),
           ![c].inAwait = @ \/ (~closed[c] /\ pc[c] \in {"balance", "dm"}),
           ![c].dmFailed = @ \/ cause = "dmfail"]
    /\ UNCHANGED crashed

\* closeConnection(clientObj) called by `cause`, the sockets being in states
\* ws0 and relay0 at the call.  Both close() calls sit in try/catch: whether
\* either throws, the other steps are taken and the function returns
\* normally, so that nothing reaches the caller (crashed is unchanged).
\* (The log notes a call made because the DM failed, also when the function
\* returns at line 219.)
closeConnection(c, cause, ws0, relay0) ==
    IF closed[c]
    THEN /\ wsState' = [wsState EXCEPT ![c] = ws0]
         /\ relayState' = [relayState EXCEPT ![c] = relay0]
         /\ hist' = [hist EXCEPT ![c].dmFailed = @ \/ cause = "dmfail"]
         /\ UNCHANGED <<closed, clients, drainTimer, crashed>>
    ELSE /\ drainTimer' = [drainTimer EXCEPT ![c] = FALSE]
         /\ clients' = clients \ {c}
         /\ closed' = [closed EXCEPT ![c] = TRUE]
         /\ \E wsThrows, relayThrows \in BOOLEAN :
              /\ wsState' = [wsState EXCEPT ![c] = AfterClose(ws0, wsThrows)]
              /\ relayState' =
                   [relayState EXCEPT ![c] = AfterClose(relay0, relayThrows)]
         /\ hist' = [hist EXCEPT
                ![c].closedFlips = @ + 1,
                ![c].wsCloses = @ + 1,
                ![c].relayCloses = @ + 1,
                ![c].removals = @ + (IF c \in clients THEN 1 ELSE 0),
                ![c].byAuthTimer = (cause = "authtimeout"),
                ![c].inAwait = (pc[c] \in {"balance", "dm"}),
                ![c].dmFailed = @ \/ cause = "dmfail"]
         /\ UNCHANGED crashed

(* ------------------------------- upgrade ------------------------------- *)

\* server.on("upgrade"): the new connection, its relay socket, the drain
\* interval; wss.handleUpgrade runs the "connection" callback, which sets
\* req.ws and calls sendAuthChallenge (the auth timer)
Upgrade ==
    /\ ~crashed
    /\ arrivals > 0
    /\ arrivals' = arrivals - 1
    /\ id' = id + 1
    /\ clients' = clients \cup {id}
    /\ drainTimer' = [drainTimer EXCEPT ![id] = TRUE]
    /\ relayState' = [relayState EXCEPT ![id] = "CONNECTING"]
    /\ wsState' = [wsState EXCEPT ![id] = "OPEN"]
    /\ authTimer' = [authTimer EXCEPT ![id] = "pending"]
    /\ UNCHANGED <<closed, authenticated, funded, queueUpstream,
                   queueDownstream, pc, pubkey, payTimer, listeners, crashed,
                   sentUp, sentDown, nFrames, hist>>

Created(c) == c < id


(* ---------------------------- relay callbacks -------------------------- *)

\* relay.on("open")
RelayOpen(c) ==
    /\ ~crashed
    /\ Created(c)
    /\ relayState[c] = "CONNECTING"
    /\ relayState' = [relayState EXCEPT ![c] = "OPEN"]
    /\ UNCHANGED <<arrivals, id, clients, closed, drainTimer, authenticated,
                   funded, wsState, queueUpstream, queueDownstream, authTimer,
                   pc, pubkey, payTimer, listeners, crashed, sentUp, sentDown,
                   nFrames, hist>>

\* relay.on("message"): the frame is appended to queueDownstream.  A socket
\* that is closing still delivers what arrives before the close completes.
RelayMessage(c) ==
    /\ ~crashed
    /\ Created(c)
    /\ relayState[c] \in {"OPEN", "CLOSING"}
    /\ nFrames < MaxFrames
    /\ nFrames' = nFrames + 1
    /\ queueDownstream' =
         [queueDownstream EXCEPT ![c] = Append(@, nFrames + 1)]
    /\ UNCHANGED <<arrivals, id, clients, closed, drainTimer, authenticated,
                   funded, wsState, relayState, queueUpstream, authTimer, pc,
                   pubkey, payTimer, listeners, crashed, sentUp, sentDown,
                   hist>>

\* relay.on("close"): the relay socket is closed (refused, closed by the
\* relay, or our own close() completed)
RelayClose(c) ==
    /\ ~crashed
    /\ Created(c)
    /\ relayState[c] \in {"CONNECTING", "OPEN", "CLOSING"}
    /\ closeConnection(c, "relayclose", wsState[c], "CLOSED")
    /\ UNCHANGED <<arrivals, id, authenticated, funded, queueUpstream,
                   queueDownstream, authTimer, pc, pubkey, payTimer,
                   listeners, sentUp, sentDown, nFrames>>

(* ---------------------------- client callbacks ------------------------- *)

\* ws.on("close")
ClientClose(c) ==
    /\ ~crashed
    /\ Created(c)
    /\ wsState[c] \in {"OPEN", "CLOSING"}
    /\ closeConnection(c, "clientclose", "CLOSED", relayState[c])
    /\ UNCHANGED <<arrivals, id, authenticated, funded, queueUpstream,
                   queueDownstream, authTimer, pc, pubkey, payTimer,
                   listeners, sentUp, sentDown, nFrames>>

\* the AUTH events a client may send: an object that validateEvent accepts
\* or not, signed correctly or not, the challenge tag it carries (0: none;
\* the challenge issued to connection k is k), the host of its relay tag.
\* The events sent have at most one of: a malformed object, a bad signature,
\* no challenge tag, a relay tag that is missing or names another host (an
\* event with two is rejected at the first, as if it had that one); the
\* challenge they carry may be another connection's.
AuthEvents ==
    [pubkey : AuthKeys, wellFormed : BOOLEAN, signed : {TRUE},
     challenge : 1..MaxConns, relayHost : {"proxy"}]
    \cup [pubkey : AuthKeys, wellFormed : {TRUE}, signed : {FALSE},
          challenge : 1..MaxConns, relayHost : {"proxy"}]
    \cup [pubkey : AuthKeys, wellFormed : {TRUE}, signed : {TRUE},
          challenge : {0}, relayHost : {"proxy"}]
    \cup [pubkey : AuthKeys, wellFormed : {TRUE}, signed : {TRUE},
          challenge : 1..MaxConns, relayHost : {"other", "none"}]

\* validateAuthEvent comparing the challenge tag with nothing
validateAuthEvent_AnyChallenge(ev, c) ==
    /\ ev.wellFormed /\ ev.signed
    /\ ev.challenge # 0
    /\ ev.relayHost # "none"
    /\ ev.relayHost = "proxy"

\* line 133: typeof event === "object" and validateAuthEvent(event, ws);
\* every exception inside validateAuthEvent (a missing tag, a relay tag that
\* is no URL) is caught and gives false
validateAuthEvent(ev, c) ==
    /\ ev.wellFormed /\ ev.signed
    /\ ev.challenge # 0 /\ ev.challenge = c
    /\ ev.relayHost # "none"
    /\ ev.relayHost = "proxy"

\* line 138: event.pubkey === bot.publicKey
IsOperator_Never(ev) == FALSE
IsOperator(ev) == ev.pubkey = BotKey

\* ws.on("message"), first branch, for the frame ["AUTH", ev], up to the
\* first await: the call of getBalanceInSats is made in this step
OnAuthEvent(c, ev) ==
    /\ ~crashed
    /\ Created(c)
    /\ wsState[c] \in {"OPEN", "CLOSING"}
    /\ ~authenticated[c]
    /\ IF ~validateAuthEvent(ev, c)
       THEN /\ closeConnection(c, "authfail", wsState[c], relayState[c])
            /\ UNCHANGED <<authenticated, funded, pc, pubkey>>
       ELSE /\ authenticated' = [authenticated EXCEPT ![c] = TRUE]
            /\ pubkey' = [pubkey EXCEPT ![c] = ev.pubkey]
            /\ IF IsOperator(ev)
               THEN /\ funded' = [funded EXCEPT ![c] = TRUE]
                    /\ UNCHANGED <<pc, hist>>
               ELSE /\ pc' = [pc EXCEPT ![c] = "balance"]
                    /\ hist' = [hist EXCEPT ![c].lookups = @ + 1]
                    /\ UNCHANGED funded
            /\ UNCHANGED <<closed, clients, drainTimer, wsState, relayState,
                           crashed>>
    /\ UNCHANGED <<arrivals, id, queueUpstream, queueDownstream, authTimer,
                   payTimer, listeners, sentUp, sentDown, nFrames>>

\* ws.on("message"), first branch: an AUTH frame on a connection that is not
\* authenticated
OnAuthMessage(c) == \E ev \in AuthEvents : OnAuthEvent(c, ev)

\* ws.on("message"), line 188: any other frame is appended to queueUpstream
\* (after authentication an AUTH frame is such a frame too)
OnClientFrame(c) ==
    /\ ~crashed
    /\ Created(c)
    /\ wsState[c] \in {"OPEN", "CLOSING"}
    /\ nFrames < MaxFrames
    /\ nFrames' = nFrames + 1
    /\ \E t \in FrameTypes : \E k \in EventKinds(t) :
         queueUpstream' = [queueUpstream EXCEPT
             ![c] = Append(@, [type |-> t, kind |-> k, n |-> nFrames + 1])]
    /\ UNCHANGED <<arrivals, id, clients, closed, drainTimer, authenticated,
                   funded, wsState, relayState, queueDownstream, authTimer,
                   pc, pubkey, payTimer, listeners, crashed, sentUp, sentDown,
                   hist>>

(* --------------------------- admission control ------------------------- *)

\* line 148 and 171: balance && balance >= collateralRequired
Sufficient_Strict(balance) == balance # 0 /\ balance > collateralRequired
Sufficient(balance) == balance # 0 /\ balance >= collateralRequired

\* the AUTH branch resumes after `await getBalanceInSats(event.pubkey)`
\* with `balance`: funded, or bot.askForCollateral is called
BalanceResolves(c, balance) ==
    /\ ~crashed
    /\ pc[c] = "balance"
    /\ IF Sufficient(balance)
       THEN /\ funded' = [funded EXCEPT ![c] = TRUE]
            /\ pc' = [pc EXCEPT ![c] = "done"]
            /\ hist' = [hist EXCEPT
                   ![c].sufficient = (balance >= collateralRequired)]
       ELSE /\ pc' = [pc EXCEPT ![c] = "dm"]
            /\ hist' = [hist EXCEPT
                   ![c].sufficient = (balance >= collateralRequired),
                   ![c].dms = @ + 1]
            /\ UNCHANGED funded
    /\ UNCHANGED <<arrivals, id, clients, closed, drainTimer, authenticated,
                   wsState, relayState, queueUpstream, queueDownstream,
                   authTimer, pubkey, payTimer, listeners, crashed, sentUp,
                   sentDown, nFrames>>

BalanceReturns(c) == \E balance \in Balances : BalanceResolves(c, balance)

\* line 163: if (!didSendDM)
DMFailed_Ignored(didSendDM) == FALSE
DMFailed(didSendDM) == ~didSendDM

\* the AUTH branch resumes after `await bot.askForCollateral(...)`: teardown
\* if the DM failed, else the payment timer and the process.once listener
DMResolves(c, didSendDM) ==
    /\ ~crashed
    /\ pc[c] = "dm"
    /\ pc' = [pc EXCEPT ![c] = "done"]
    /\ IF DMFailed(didSendDM)
       THEN /\ closeConnection(c, "dmfail", wsState[c], relayState[c])
            /\ UNCHANGED <<payTimer, listeners>>
       ELSE /\ payTimer' = [payTimer EXCEPT ![c] = "pending"]
            /\ listeners' = [listeners EXCEPT ![pubkey[c]] = @ \cup {c}]
            /\ hist' = [hist EXCEPT ![c].timers = @ + 1,
                                    ![c].waiters = @ + 1,
                                    ![c].dmFailed = ~didSendDM]
            /\ UNCHANGED <<closed, clients, drainTimer, wsState, relayState,
                           crashed>>
    /\ UNCHANGED <<arrivals, id, authenticated, funded, queueUpstream,
                   queueDownstream, authTimer, pubkey, sentUp, sentDown,
                   nFrames>>

DMReturns(c) == \E didSendDM \in BOOLEAN : DMResolves(c, didSendDM)

\* the process.once listener of line 179, run for connection c: ws.funded,
\* and the payment timer after clearTimeout(timeout)
waiterFunded(c) == TRUE
waiterTimer_NoClear(c) == payTimer[c]
waiterTimer(c) == IF payTimer[c] = "pending" THEN "cancelled" ELSE payTimer[c]

\* the listeners process.emit(`${pubKey}.paid`) calls: every listener
\* registered for the event, each of them removed by its call (once)
Emitted(p) == listeners[p]

\* app.post("/webhooks/lnbits/paid/:pubKey")
Webhook(p) ==
    /\ ~crashed
    /\ funded' = [c \in Conns |->
                    IF c \in Emitted(p) THEN waiterFunded(c) ELSE funded[c]]
    /\ payTimer' = [c \in Conns |->
                    IF c \in Emitted(p) THEN waiterTimer(c) ELSE payTimer[c]]
    /\ listeners' = [listeners EXCEPT ![p] = @ \ Emitted(p)]
    /\ hist' = [c \in Conns |->
                  IF c \in Emitted(p)
                  THEN [hist[c] EXCEPT
                          !.waiterFires = @ + 1,
                          !.paidInTime = @ \/ payTimer[c] = "pending"]
                  ELSE hist[c]]
    /\ UNCHANGED <<arrivals, id, clients, closed, drainTimer, authenticated,
                   wsState, relayState, queueUpstream, queueDownstream,
                   authTimer, pc, pubkey, crashed, sentUp, sentDown, nFrames>>

\* the payment timeout fires: line 168, then the call of getBalanceInSats
PayTimerFires(c) ==
    /\ ~crashed
    /\ payTimer[c] = "pending"
    /\ payTimer' = [payTimer EXCEPT
                      ![c] = IF funded[c] THEN "done" ELSE "lookup"]
    /\ hist' = [hist EXCEPT
                  ![c].lookups = @ + (IF funded[c] THEN 0 ELSE 1)]
    /\ UNCHANGED <<arrivals, id, clients, closed, drainTimer, authenticated,
                   funded, wsState, relayState, queueUpstream,
                   queueDownstream, authTimer, pc, pubkey, listeners, crashed,
                   sentUp, sentDown, nFrames>>

\* the payment timeout callback resumes after its await: lines 171-176
PayLookupReturns(c) ==
    /\ ~crashed
    /\ payTimer[c] = "lookup"
    /\ payTimer' = [payTimer EXCEPT ![c] = "done"]
    /\ \E balance \in Balances :
         IF Sufficient(balance)
         THEN /\ funded' = [funded EXCEPT ![c] = TRUE]
              /\ UNCHANGED connVars
         ELSE /\ closeConnection(c, "payexpiry", wsState[c], relayState[c])
              /\ UNCHANGED funded
    /\ UNCHANGED <<arrivals, id, authenticated, queueUpstream,
                   queueDownstream, authTimer, pc, pubkey, listeners, sentUp,
                   sentDown, nFrames>>

\* the timeout of sendAuthChallenge fires
AuthTimerFires(c) ==
    /\ ~crashed
    /\ authTimer[c] = "pending"
    /\ authTimer' = [authTimer EXCEPT ![c] = "fired"]
    /\ IF authenticated[c]
       THEN UNCHANGED connVars
       ELSE closeConnection(c, "authtimeout", wsState[c], relayState[c])
    /\ UNCHANGED <<arrivals, id, authenticated, funded, queueUpstream,
                   queueDownstream, pc, pubkey, payTimer, listeners, sentUp,
                   sentDown, nFrames>>

(* ------------------------------ drain loop ----------------------------- *)

\* line 246: the tick goes on only for an authenticated connection
DrainGate_NoAuthCheck(c) == TRUE
DrainGate(c) == authenticated[c]

\* the index in q of the frame at which the loop of line 251 throws: the
\* first popped (the last in q) on which the body throws; 0 if it throws on
\* none.  Both `if`s parse each frame: the first when not funded, the second
\* when funded.
ThrowsAt(q, isFunded) ==
    LET bad == {i \in 1..Len(q) : Throws(q[i], isFunded)}
    IN  IF bad = {} THEN 0 ELSE CHOOSE i \in bad : \A j \in bad : j <= i

\* the frames popped before the loop ends or throws, in the order popped
Popped(q, isFunded) == Reverse(SubSeq(q, ThrowsAt(q, isFunded) + 1, Len(q)))

\* line 275: relay.send(data) for every frame popped, whatever the branch
\* taken above it
SentToRelay(q, isFunded) == Popped(q, isFunded)

\* the queue after the loop: reAddUpstream pushed back (line 277), or, when
\* the loop threw, what had not been popped yet
UpstreamLeft(q, isFunded) ==
    IF ThrowsAt(q, isFunded) > 0
    THEN SubSeq(q, 1, ThrowsAt(q, isFunded) - 1)
    ELSE IF isFunded THEN <<>> ELSE SelectSeq(Popped(q, isFunded), Deferred)

\* lines 263-268: processSpam is called for the frame
SpamHook_NoFundedCheck(f, isFunded) ==
    f.type = "EVENT" /\ f.kind = "filtered"
SpamHook(f, isFunded) ==
    isFunded /\ f.type = "EVENT" /\ f.kind = "filtered"

\* processSpam returns a promise, which is resolved or rejected after the
\* tick; the .catch of line 269 logs a rejection, and changes nothing
SpamOutcomes == {"resolved", "rejected"}

\* the frames processSpam is called for on a tick, in the order called
SpamCalled(q, isFunded) ==
    SelectSeq(Popped(q, isFunded), LAMBDA f : SpamHook(f, isFunded))

\* line 281-283: the frames popped from queueDownstream, in the order sent
SentToClient(q) == Reverse(q)

\* the setInterval callback: drainMessageQueue(clientObj)
DrainTick(c) ==
    /\ ~crashed
    /\ drainTimer[c]
    /\ Len(sentUp[c]) < MaxSent
    /\ IF ~DrainGate(c)
       THEN /\ hist' = [hist EXCEPT ![c].heldBack =
                       @ \/ (wsState[c] = "OPEN" /\ queueDownstream[c] # <<>>)]
            /\ UNCHANGED <<queueUpstream, queueDownstream, sentUp, sentDown,
                           crashed>>
       ELSE LET up == relayState[c] = "OPEN"
                q == queueUpstream[c]
                threw == up /\ ThrowsAt(q, funded[c]) > 0
                down == ~threw /\ wsState[c] = "OPEN"
                called == IF up THEN SpamCalled(q, funded[c]) ELSE <<>>
            IN  /\ sentUp' = [sentUp EXCEPT ![c] =
                      IF up THEN @ \o SentToRelay(q, funded[c]) ELSE @]
                /\ queueUpstream' = [queueUpstream EXCEPT ![c] =
                      IF up THEN UpstreamLeft(q, funded[c]) ELSE @]
                /\ \E outcomes \in [DOMAIN called -> SpamOutcomes] :
                     hist' = [hist EXCEPT ![c].spamCalls = @ \o called]
                /\ crashed' = threw
                /\ sentDown' = [sentDown EXCEPT ![c] =
                      IF down THEN @ \o SentToClient(queueDownstream[c])
                      ELSE @]
                /\ queueDownstream' = [queueDownstream EXCEPT ![c] =
                      IF down THEN <<>> ELSE @]
    /\ UNCHANGED <<arrivals, id, clients, closed, drainTimer, authenticated,
                   funded, wsState, relayState, authTimer, pc, pubkey,
                   payTimer, listeners, nFrames>>

(* --------------------------- the specification ------------------------- *)

Next ==
    \/ Upgrade
    \/ \E c \in Conns : RelayOpen(c)
    \/ \E c \in Conns : RelayMessage(c)
    \/ \E c \in Conns : RelayClose(c)
    \/ \E c \in Conns : ClientClose(c)
    \/ \E c \in Conns : OnAuthMessage(c)
    \/ \E c \in Conns : OnClientFrame(c)
    \/ \E c \in Conns : BalanceReturns(c)
    \/ \E c \in Conns : DMReturns(c)
    \/ \E p \in Pubkeys : Webhook(p)
    \/ \E c \in Conns : PayTimerFires(c)
    \/ \E c \in Conns : PayLookupReturns(c)
    \/ \E c \in Conns : AuthTimerFires(c)
    \/ \E c \in Conns : DrainTick(c)

Spec == Init /\ [][Next]_vars

\* MaxConns connections that share the process (its event emitter and its
\* list of clients) and exchange no frames: with both queues empty a drain
\* tick changes nothing
NextPair ==
    \/ Upgrade
    \/ \E c \in Conns : RelayOpen(c)
    \/ \E c \in Conns : RelayClose(c)
    \/ \E c \in Conns : ClientClose(c)
    \/ \E c \in Conns : OnAuthMessage(c)
    \/ \E c \in Conns : BalanceReturns(c)
    \/ \E c \in Conns : DMReturns(c)
    \/ \E p \in Pubkeys : Webhook(p)
    \/ \E c \in Conns : PayTimerFires(c)
    \/ \E c \in Conns : PayLookupReturns(c)
    \/ \E c \in Conns : AuthTimerFires(c)

SpecPair == InitPair /\ [][NextPair]_vars


(* ------------------------------- claims -------------------------------- *)

\* the frames a step adds to a log
NewIn(old, new) == SubSeq(new, Len(old) + 1, Len(new))

InSeq(x, q) == \E i \in 1..Len(q) : q[i] = x

Subscription(f) == f.type \in {"REQ", "CLOSE"}

\* C1: while a connection is not authenticated or not funded, the drain
\* sends no buffered client frame to the relay unless it is a REQ or a CLOSE.
C1_OnlySubscriptionsUntilFunded ==
    [][\A c \in Conns :
         (~authenticated[c] \/ ~funded[c]) =>
             \A i \in 1..Len(NewIn(sentUp[c], sentUp'[c])) :
                 Subscription(NewIn(sentUp[c], sentUp'[c])[i])]_vars

NoRepeat(q) == \A i, j \in 1..Len(q) : i # j => q[i] # q[j]

\* C2: no frame is sent twice: each frame received from the client is sent to
\* the relay at most once and each frame received from the relay is sent to
\* the client at most once.
C2_NoDuplicates ==
    \A c \in Conns : NoRepeat(sentUp[c]) /\ NoRepeat(sentDown[c])

\* a frame of the queue that an earlier tick popped and pushed back: a frame
\* the loop pops without throwing is logged, so these are the frames both
\* logged and still queued
WasDeferred(c, f) == InSeq(f, queueUpstream[c]) /\ InSeq(f, sentUp[c])

\* C3: on a live connection that is funded, the first drain tick that runs
\* with the relay link open sends every previously deferred frame still in
\* queueUpstream to the relay, and the frame is then no longer queued.
C3_DeferredFlushedOnceFunded ==
    [][\A c \in Conns :
         (DrainTick(c) /\ funded[c] /\ relayState[c] = "OPEN") =>
             \A i \in 1..Len(queueUpstream[c]) :
                 WasDeferred(c, queueUpstream[c][i]) =>
                     /\ InSeq(queueUpstream[c][i],
                              NewIn(sentUp[c], sentUp'[c]))
                     /\ ~InSeq(queueUpstream[c][i], queueUpstream'[c])]_vars

\* C4: teardown is idempotent: however often and by whichever callers
\* closeConnection is called, closed goes from false to true once, each
\* socket's close() is called once and the entry is deleted from clients
\* once, a throwing close() included; and no error leaves closeConnection
\* (the step that tears a connection down does not end the process).
C4_TeardownOnce ==
    /\ [](\A c \in Conns :
            LET h == hist[c]
                n == IF closed[c] THEN 1 ELSE 0
            IN  /\ h.closedFlips = n
                /\ h.wsCloses = n
                /\ h.relayCloses = n
                /\ h.removals = n
                /\ closed[c] => c \notin clients
                /\ (Created(c) /\ ~closed[c]) => c \in clients)
    /\ [][\A c \in Conns : closed'[c] # closed[c] => ~crashed']_vars

\* closeConnection was called three times, by the relay's close event, the
\* client's close event and the auth timer
C4_Witness ==
    \E c \in Conns :
        /\ closed[c] /\ hist[c].wsCloses = 1 /\ hist[c].relayCloses = 1
        /\ relayState[c] = "CLOSED" /\ wsState[c] = "CLOSED"
        /\ authTimer[c] = "fired" /\ ~authenticated[c]

\* the process.once listener of connection c is registered
WaiterPending(c) == \E p \in Pubkeys : c \in listeners[p]

\* C5: after teardown nothing of the connection is pending: its drain timer,
\* auth timer, payment timer and payment waiter are cancelled, so none can
\* fire later.
C5_NothingPendingAfterTeardown ==
    \A c \in Conns :
        closed[c] =>
            /\ ~drainTimer[c]
            /\ authTimer[c] # "pending"
            /\ payTimer[c] \notin {"pending", "lookup"}
            /\ ~WaiterPending(c)

\* the connections whose process.once listener runs in a step
Fired == {c \in Conns : hist'[c].waiterFires > hist[c].waiterFires}

\* C6: one payment notification resolves one waiter: when two live
\* connections authenticated as the same pubkey both await payment, one
\* webhook delivery marks at most one of them funded.  (That the waiter of a
\* connection torn down is retired is part of C5 too.)
C6_OneWaiterPerNotification ==
    [][Cardinality({c \in Fired : ~closed[c]}) <= 1]_vars

\* arrival order: frame k is the k-th frame to arrive
ArrivalOrder(q) == \A i, j \in 1..Len(q) : i < j => q[i].n < q[j].n
ArrivalOrderDown(q) == \A i, j \in 1..Len(q) : i < j => q[i] < q[j]

\* a and b, both in q, keep in r the order they have in q
SameOrder(q, r) ==
    \A i, j \in 1..Len(q) : \A k, l \in 1..Len(r) :
        (i < j /\ r[k] = q[i] /\ r[l] = q[j]) => k < l

\* C7: in each direction the frames forwarded on one tick are sent in the
\* order they arrived, and the frames a tick defers keep their relative
\* order in queueUpstream.
C7_Fifo ==
    [][\A c \in Conns :
         DrainTick(c) =>
             /\ ArrivalOrder(NewIn(sentUp[c], sentUp'[c]))
             /\ ArrivalOrderDown(NewIn(sentDown[c], sentDown'[c]))
             /\ SameOrder(queueUpstream[c], queueUpstream'[c])]_vars

\* C8: a connection that never authenticates has been torn down once its
\* auth timer has fired, and the drain has forwarded none of its frames, in
\* either direction.
C8_NoAuthNoTraffic ==
    \A c \in Conns :
        ~authenticated[c] =>
            /\ sentUp[c] = <<>> /\ sentDown[c] = <<>>
            /\ authTimer[c] = "fired" => closed[c]

\* the auth timer tore down a connection that had buffered frames in both
\* directions
C8_Witness ==
    \E c \in Conns :
        /\ ~authenticated[c] /\ authTimer[c] = "fired"
        /\ hist[c].byAuthTimer
        /\ queueUpstream[c] # <<>> /\ queueDownstream[c] # <<>>

\* nothing more will run for the payment of connection c: its timer was
\* cancelled, or the callback has finished, or the process has ended
PaymentSettled(c) ==
    payTimer[c] \in {"cancelled", "done"} \/ (payTimer[c] # "none" /\ crashed)

\* C9: every connection whose DM dispatch succeeded (its payment timer was
\* started) ends funded or torn down: when the timer fires before a
\* notification the balance is looked up once more, and the connection is
\* funded if it suffices and torn down otherwise.
C9_FundedOrTornDown ==
    \A c \in Conns : PaymentSettled(c) => funded[c] \/ closed[c]

\* C10: a payment notification that arrives while the waiter is registered
\* and the payment timer has not fired sets funded, cancels the timer and
\* leaves the connection open; the timer then never tears the connection
\* down, and the waiter runs at most once per connection.
C10_PaidBeforeExpiry ==
    /\ [][\A c \in Conns :
            (payTimer[c] = "pending" /\ c \in listeners[pubkey[c]]
                /\ Webhook(pubkey[c])) =>
                    /\ funded'[c]
                    /\ payTimer'[c] = "cancelled"
                    /\ closed'[c] = closed[c]
                    /\ ~WaiterPending(c)']_vars
    /\ [][\A c \in Conns :
            hist[c].paidInTime =>
                ~(PayTimerFires(c) \/ PayLookupReturns(c))]_vars
    /\ [](\A c \in Conns :
            /\ hist[c].waiterFires <= 1
            /\ hist[c].paidInTime => funded[c] /\ payTimer[c] = "cancelled")

\* the notification came in time and the connection is open and funded
C10_Witness ==
    \E c \in Conns :
        hist[c].paidInTime /\ funded[c] /\ ~closed[c]
            /\ payTimer[c] = "cancelled"

\* C11: a connection that authenticates with the operator's key is
\* authenticated and funded in the same step (there is no state in which it
\* is authenticated and not funded); getBalanceInSats and askForCollateral
\* are never called for it, and no payment timer or waiter is ever created.
C11_OperatorBypass ==
    \A c \in Conns :
        /\ pubkey[c] = BotKey => authenticated[c]
        /\ (authenticated[c] /\ pubkey[c] = BotKey) =>
               /\ funded[c]
               /\ hist[c].lookups = 0 /\ hist[c].dms = 0
               /\ hist[c].timers = 0 /\ hist[c].waiters = 0
               /\ payTimer[c] = "none" /\ ~WaiterPending(c)

\* an operator connection, live after its auth timer fired, that has sent a
\* frame to the relay
C11_Witness ==
    \E c \in Conns :
        /\ authenticated[c] /\ pubkey[c] = BotKey /\ funded[c]
        /\ ~closed[c] /\ authTimer[c] = "fired" /\ sentUp[c] # <<>>

\* C12: when the balance returned by the lookup made at authentication is at
\* least the collateral, the connection is funded from the step in which the
\* lookup returns, askForCollateral is never called for it and no payment
\* timer or waiter is registered.
C12_SufficientBalanceNoDM ==
    \A c \in Conns :
        hist[c].sufficient =>
            /\ funded[c]
            /\ hist[c].lookups = 1 /\ hist[c].dms = 0
            /\ hist[c].timers = 0 /\ hist[c].waiters = 0
            /\ payTimer[c] = "none" /\ ~WaiterPending(c)

\* a user's connection funded by its balance, live after its auth timer
\* fired
C12_Witness ==
    \E c \in Conns :
        /\ hist[c].sufficient /\ pubkey[c] # BotKey /\ funded[c]
        /\ ~closed[c] /\ authTimer[c] = "fired"

\* an EVENT frame whose event has a kind of config.filterNipKind
FilteredEvent(f) == f.type = "EVENT" /\ f.kind = "filtered"

\* C13: on a tick of a funded connection processSpam is called once for each
\* EVENT frame of a filtered kind that the tick sends to the relay, and for
\* no other frame; on a tick of a connection that is not funded it is not
\* called; it is called at most once for a frame over the whole run; and
\* every frame it was called for was sent to the relay, whether the call
\* fails or not.
C13_SpamHookOncePerFilteredEvent ==
    /\ [][\A c \in Conns :
            NewIn(hist[c].spamCalls, hist'[c].spamCalls) =
                IF funded[c]
                THEN SelectSeq(NewIn(sentUp[c], sentUp'[c]), FilteredEvent)
                ELSE <<>>]_vars
    /\ [](\A c \in Conns :
            /\ NoRepeat(hist[c].spamCalls)
            /\ \A i \in 1..Len(hist[c].spamCalls) :
                   /\ FilteredEvent(hist[c].spamCalls[i])
                   /\ InSeq(hist[c].spamCalls[i], sentUp[c]))

\* processSpam was called for a frame that was deferred and sent while the
\* connection was not funded, and again sent once it was
C13_Witness ==
    \E c \in Conns :
        /\ Len(hist[c].spamCalls) = 1
        /\ Len(sentUp[c]) = 2
        /\ sentUp[c][1] = sentUp[c][2]
        /\ sentUp[c][1] = hist[c].spamCalls[1]

\* C14: a buffered client frame that cannot be parsed as a JSON array, or an
\* EVENT frame without an event object, does not stop the process: no drain
\* tick ends it.
C14_BadFrameDoesNotStopProcess ==
    [][\A c \in Conns : DrainTick(c) => ~crashed']_vars

\* C15: the payment-expiry path does not tear down a connection that has
\* become funded: when the callback of the payment timer resumes after its
\* balance lookup and funded is true, closeConnection is not called (a live
\* connection stays live).
C15_ExpiryNeverClosesFunded ==
    [][\A c \in Conns :
         (PayLookupReturns(c) /\ funded[c]) => closed'[c] = closed[c]]_vars

\* C16: the AUTH branch re-validates after each await: for a connection torn
\* down while the balance lookup or the DM is pending, the resumed code does
\* not set funded, does not call askForCollateral, starts no payment timer
\* and registers no waiter.
C16_ResumeRevalidates ==
    [][\A c \in Conns :
         (closed[c] /\ hist[c].inAwait
             /\ (BalanceReturns(c) \/ DMReturns(c))) =>
             /\ funded'[c] = funded[c]
             /\ hist'[c].dms = hist[c].dms
             /\ hist'[c].timers = hist[c].timers
             /\ hist'[c].waiters = hist[c].waiters]_vars

\* C17: whenever funded is true, by whichever path it was set, no payment
\* timer and no payment waiter of the connection is pending.
C17_FundedRetiresTimerAndWaiter ==
    \A c \in Conns :
        funded[c] => payTimer[c] # "pending" /\ ~WaiterPending(c)

\* the frames of a sequence, as a set
Frames(q) == {q[i] : i \in 1..Len(q)}

\* C18: a drain tick of a live connection whose client socket is open sends
\* every frame of queueDownstream to the client and leaves the queue empty,
\* whatever authenticated and funded are; when the client socket is not
\* open it sends none and the queue is unchanged.
C18_DownstreamDrained ==
    /\ [](\A c \in Conns : ~hist[c].heldBack)
    /\ [][\A c \in Conns :
            DrainTick(c) =>
                IF wsState[c] = "OPEN"
                THEN /\ Frames(NewIn(sentDown[c], sentDown'[c])) =
                            Frames(queueDownstream[c])
                     /\ queueDownstream'[c] = <<>>
                ELSE /\ sentDown'[c] = sentDown[c]
                     /\ queueDownstream'[c] = queueDownstream[c]]_vars

\* the four conditions of the claim on an AUTH event sent on connection c
ValidAuth(ev, c) ==
    /\ ev.wellFormed
    /\ ev.signed
    /\ ev.challenge = c
    /\ ev.relayHost = "proxy"

\* C19: authenticated becomes true only by an AUTH frame whose event is well
\* formed, correctly signed, carries the challenge issued to this connection
\* and a relay tag with the proxy's host; an AUTH frame whose event fails any
\* of these leaves authenticated and funded false and tears the connection
\* down, and neither getBalanceInSats nor askForCollateral is called.  (The
\* AUTH branch is taken only on a connection that is not authenticated.)
C19_AuthOnlyOnValidEvent ==
    [][\A c \in Conns :
         /\ (authenticated'[c] /\ ~authenticated[c]) =>
                \E ev \in AuthEvents : ValidAuth(ev, c) /\ OnAuthEvent(c, ev)
         /\ \/ ~Created(c) \/ authenticated[c]
            \/ /\ ~authenticated'[c] /\ ~funded'[c]
               /\ closed'[c]
               /\ hist'[c].lookups = 0 /\ hist'[c].dms = 0
            \/ \A ev \in AuthEvents :
                  ~ValidAuth(ev, c) => ~OnAuthEvent(c, ev)]_vars

\* a connection torn down by a rejected AUTH event: it is closed, while its
\* auth timer is pending and neither socket has had its close event
C19_Witness ==
    \E c \in Conns :
        /\ closed[c] /\ ~authenticated[c] /\ authTimer[c] = "pending"
        /\ wsState[c] # "CLOSED" /\ relayState[c] # "CLOSED"
        /\ hist[c].lookups = 0

\* C20: when the DM dispatch fails the connection is torn down in the step
\* in which askForCollateral returns, it never becomes funded, and no
\* payment timer or waiter is registered for it.
C20_DMFailureTearsDown ==
    \A c \in Conns :
        hist[c].dmFailed =>
            /\ closed[c] /\ ~funded[c]
            /\ hist[c].dms = 1
            /\ hist[c].timers = 0 /\ hist[c].waiters = 0
            /\ payTimer[c] = "none" /\ ~WaiterPending(c)

\* the DM failed on a connection that was live until then: closeConnection
\* tore it down, no socket and no timer did
C20_Witness ==
    \E c \in Conns :
        /\ hist[c].dmFailed /\ closed[c] /\ hist[c].closedFlips = 1
        /\ wsState[c] # "CLOSED" /\ relayState[c] # "CLOSED"
        /\ ~hist[c].byAuthTimer /\ payTimer[c] = "none"

=============================================================================
